---- MODULE Spec2Model ----
(***************************************************************************)
(* Model of MemoryManager (src/memmanager.h): a vector of owning           *)
(* MemoryBlock records, each binding a type-erased pointer to the deleter  *)
(* of the shape it was allocated with.  The heap is part of the state so   *)
(* that construction, destruction and leaks of payloads are observable.    *)
(***************************************************************************)
EXTENDS Integers, Sequences, FiniteSets, TLC

\* ---------------------------------------------------------------- bounds
MaxCalls  == 4       \* calls made on one manager in one run
MaxThrows == 1       \* calls of one run in which an allocation throws
NumAddrs  == 2       \* distinct non-null addresses operator new can return
MaxSize   == 2       \* largest element count passed to allocateArray

\* ------------------------------------------------------------- constants
nullptr == 0

Addrs      == 1..NumAddrs
Sizes      == {0, MaxSize}
Types      == {"int", "double", "MyClass"}
ClassTypes == {"MyClass"}
XArgs      == {42, 7}          \* int x of MyClass(int x, double y)
YArgs      == {314}            \* double y, in hundredths (3.14)

\* Where an allocation call can throw std::bad_alloc: in the new-expression,
\* in make_unique<MemoryBlock>, in vector::emplace_back; or nowhere.
Throws     == {"none", "new", "make_unique", "emplace_back"}

\* The order in which std::vector destroys its elements in clear() and in
\* its destructor.  The C++ standard leaves it open: libstdc++ and the MSVC
\* library (the g++ and cl builds of test.cpp) go from the first element to
\* the last, libc++ from the last to the first.  A build has one of them.
DestroyOrders == {"first to last", "last to first"}

VARIABLES
    memoryBlocks,   \* MemoryManager::memoryBlocks: sequence of MemoryBlock
    heap,           \* the free store: what each address holds
    constructed,    \* number of payloads constructed so far
    deleted,        \* number of deleter invocations so far
    cout,           \* lines the last call wrote to std::cout
    ret,            \* outcome of the last call: status and returned pointer
    alive,          \* FALSE once the MemoryManager object has been destroyed
    destroyOrder,   \* the element destruction order of the build's std::vector
    ncalls,         \* number of calls made so far
    nthrows,        \* number of calls so far in which an allocation threw
    twin,           \* history: a manager created when the current generation
                    \*          began, given the calls made since
    genBase,        \* history: constructed and deleted when that generation began
    call,           \* history: the last call made
    survivors       \* history: ids of the payloads the manager retained when
                    \*          an allocation last threw

vars == <<memoryBlocks, heap, constructed, deleted, cout, ret, alive,
          destroyOrder, ncalls, nthrows, twin, genBase, call, survivors>>

\* Mutant: the trait holds of every type
is_class_vAlways(T) == T \in Types

\* std::is_class_v<T>
is_class_v(T) == T \in ClassTypes

Line(text, T, a, b) == [text |-> text, T |-> T, a |-> a, b |-> b]

\* ------------------------------------------------------------------ heap
\* An address never handed out by operator new
Unused ==
    [id |-> 0, shape |-> "none", T |-> "", size |-> 0, m_x |-> 0, m_y |-> 0,
     live |-> FALSE, ctor |-> 0, dtor |-> 0, deletes |-> 0, wrong |-> 0,
     when |-> 0]

FreeAddrs(hp) == {a \in Addrs : ~hp[a].live}

\* The addresses operator new may return: storage released earlier or
\* storage never handed out.  Addresses are interchangeable, so of each
\* kind the lowest stands for all.
Lowest(S)       == {a \in S : \A b \in S : a <= b}
OperatorNew(hp) == Lowest(FreeAddrs(hp))
                   \cup Lowest({a \in FreeAddrs(hp) : hp[a].id = 0})

\* Mutant: the members initialised from each other's argument
MyClassCtorSwapped(x, y) == [m_x |-> y, m_y |-> x]

\* MyClass::MyClass(int x, double y) : m_x(x), m_y(y)
MyClassCtor(x, y) == [m_x |-> x, m_y |-> y]

\* new T(std::forward<Args>(args)...): one object, constructed once from the
\* arguments; id numbers the payloads in construction order
NewObject(id, T, x, y) ==
    [id |-> id, shape |-> "object", T |-> T, size |-> 1,
     m_x |-> MyClassCtor(x, y).m_x, m_y |-> MyClassCtor(x, y).m_y, live |-> TRUE,
     ctor |-> 1, dtor |-> 0, deletes |-> 0, wrong |-> 0, when |-> 0]

\* new T[size] for a non-class T: default-initialised, no constructor runs;
\* the storage is allocated, and its address non-null, also for size 0
NewArray(id, T, size) ==
    [id |-> id, shape |-> "array", T |-> T, size |-> size,
     m_x |-> 0, m_y |-> 0, live |-> TRUE,
     ctor |-> 0, dtor |-> 0, deletes |-> 0, wrong |-> 0, when |-> 0]

\* Mutant: the array lambda written with delete instead of delete[]
ArrayDeleterScalar(T) == [shape |-> "object", T |-> T]

\* The two lambdas stored as MemoryBlock::deleter
ArrayDeleter(T)  == [shape |-> "array", T |-> T]
ObjectDeleter(T) == [shape |-> "object", T |-> T]

\* MemoryBlock(void* p, void (*d)(void*)) : ptr(p), deleter(d)
MemoryBlock(p, d) == [ptr |-> p, deleter |-> d]

\* deleter(p): delete / delete[] of the payload at p, which runs the
\* destructor of each element of class type and releases the storage.  On an
\* address whose payload is already dead it is a second delete of that
\* payload; with another shape or type than the payload's it is a wrong one.
Delete(hp, p, d) ==
    IF p \notin Addrs \/ hp[p].id = 0 THEN hp
    ELSE [hp EXCEPT ![p] =
            [@ EXCEPT !.live    = FALSE,
                      !.deletes = @ + 1,
                      !.dtor    = IF is_class_v(hp[p].T) THEN @ + hp[p].size ELSE @,
                      !.wrong   = IF d.shape = hp[p].shape /\ d.T = hp[p].T
                                  THEN @ ELSE @ + 1]]

\* History: the payload at p records that it was the n-th one deleted
Stamp(hp, p, n) ==
    IF p \notin Addrs \/ hp[p].id = 0 THEN hp
    ELSE [hp EXCEPT ![p].when = n]

\* Lines ~MyClass() prints while Delete destroys the payload at p
DeleteOut(hp, p) ==
    IF p \in Addrs /\ hp[p].id # 0 /\ is_class_v(hp[p].T)
    THEN <<Line("MyClass destroyed", "MyClass", 0, 0)>>
    ELSE <<>>

\* ------------------------------------------------- MemoryManager methods
\* A program state as the methods see it: the manager's member, the free
\* store, the output stream, and the outcome handed back to the caller.
State == [memoryBlocks |-> memoryBlocks, heap |-> heap,
          constructed |-> constructed, deleted |-> deleted,
          cout |-> cout, ret |-> ret, alive |-> alive]

Ret(status, p) == [status |-> status, ptr |-> p]

\* MemoryManager manager;  (memoryBlocks default-constructed empty)
Fresh == [memoryBlocks |-> <<>>, heap |-> [a \in Addrs |-> Unused],
          constructed |-> 0, deleted |-> 0,
          cout |-> <<>>, ret |-> Ret("none", nullptr), alive |-> TRUE]

\* Mutant: the null test inverted, if (!ptr) deleter(ptr)
MemoryBlockDtorInverted(st, b) ==
    IF b.ptr = nullptr
    THEN [st EXCEPT !.heap    = Stamp(Delete(st.heap, b.ptr, b.deleter),
                                      b.ptr, st.deleted + 1),
                    !.deleted = @ + 1,
                    !.cout    = @ \o DeleteOut(st.heap, b.ptr)]
    ELSE st

\* ~MemoryBlock() { if (ptr) deleter(ptr); }
MemoryBlockDtor(st, b) ==
    IF b.ptr # nullptr
    THEN [st EXCEPT !.heap    = Stamp(Delete(st.heap, b.ptr, b.deleter),
                                      b.ptr, st.deleted + 1),
                    !.deleted = @ + 1,
                    !.cout    = @ \o DeleteOut(st.heap, b.ptr)]
    ELSE st

\* Mutant: the elements destroyed last to first whatever the library
RECURSIVE DestroyElementsBackwards(_, _)
DestroyElementsBackwards(st, blocks) ==
    IF blocks = <<>> THEN st
    ELSE DestroyElementsBackwards(MemoryBlockDtor(st, blocks[Len(blocks)]),
                                  SubSeq(blocks, 1, Len(blocks) - 1))

\* Destruction of the vector's elements, in the order of the build's library
RECURSIVE DestroyElements(_, _)
DestroyElements(st, blocks) ==
    IF blocks = <<>> THEN st
    ELSE IF destroyOrder = "first to last"
    THEN DestroyElements(MemoryBlockDtor(st, Head(blocks)), Tail(blocks))
    ELSE DestroyElements(MemoryBlockDtor(st, blocks[Len(blocks)]),
                         SubSeq(blocks, 1, Len(blocks) - 1))

\* Mutant: the record is inserted at the front of the vector
emplace_backAtFront(st, block, throw) ==
    IF throw = "emplace_back"
    THEN [MemoryBlockDtor(st, block) EXCEPT !.ret = Ret("bad_alloc", nullptr)]
    ELSE [st EXCEPT !.memoryBlocks = <<block>> \o st.memoryBlocks,
                    !.ret = Ret("ok", block.ptr)]

\* Mutant: the record is in the vector by the time growing it throws
emplace_backKeepsOnThrow(st, block, throw) ==
    IF throw = "emplace_back"
    THEN [MemoryBlockDtor(st, block) EXCEPT
             !.memoryBlocks = Append(st.memoryBlocks, block),
             !.ret = Ret("bad_alloc", nullptr)]
    ELSE [st EXCEPT !.memoryBlocks = Append(st.memoryBlocks, block),
                    !.ret = Ret("ok", block.ptr)]

\* memoryBlocks.emplace_back(std::move(block)), given the temporary
\* unique_ptr that owns block.  When growing the vector throws, the vector
\* is unchanged and unwinding destroys the temporary, hence the block and
\* through its deleter the payload.
emplace_back(st, block, throw) ==
    IF throw = "emplace_back"
    THEN [MemoryBlockDtor(st, block) EXCEPT !.ret = Ret("bad_alloc", nullptr)]
    ELSE [st EXCEPT !.memoryBlocks = Append(st.memoryBlocks, block),
                    !.ret = Ret("ok", block.ptr)]

\* std::make_unique<MemoryBlock>(rawPtr, deleter) followed by emplace_back.
\* When make_unique throws, rawPtr is a plain void* that nothing owns.
Track(st, rawPtr, deleter, throw) ==
    IF throw = "make_unique"
    THEN [st EXCEPT !.ret = Ret("bad_alloc", nullptr)]
    ELSE emplace_back(st, MemoryBlock(rawPtr, deleter), throw)

\* static_assert(...) failed: the call does not compile, nothing runs
Rejected(st) == [st EXCEPT !.ret = Ret("static_assert", nullptr)]

\* The payload a new-expression constructed, placed at the address a it got
Construct(st, a, payload) ==
    [st EXCEPT !.heap = [@ EXCEPT ![a] = payload],
               !.constructed = @ + 1]

\* Mutant: a zero-length request returns a null pointer and tracks nothing
allocateArrayNoEmpty(st, T, size, throw, a) ==
    IF is_class_v(T) THEN Rejected(st)
    ELSE IF throw = "new" THEN [st EXCEPT !.ret = Ret("bad_alloc", nullptr)]
    ELSE IF size = 0 THEN [st EXCEPT !.ret = Ret("ok", nullptr)]
    ELSE Track(Construct(st, a, NewArray(st.constructed + 1, T, size)),
               a, ArrayDeleter(T), throw)

\* template <typename T> T* allocateArray(size_t size)
\* a is the address the new-expression obtains, when it does not throw.
\* The diagnostic after the return statement is never reached.
allocateArray(st, T, size, throw, a) ==
    IF is_class_v(T) THEN Rejected(st)
    ELSE IF throw = "new" THEN [st EXCEPT !.ret = Ret("bad_alloc", nullptr)]
    ELSE Track(Construct(st, a, NewArray(st.constructed + 1, T, size)),
               a, ArrayDeleter(T), throw)

\* The constructor's own output: "MyClass constructed with (x, y)"
MyClassCtorOut(st, x, y) ==
    [st EXCEPT !.cout = Append(@, Line("MyClass constructed with", "MyClass", x, y))]

\* The #ifndef DNDEBUG diagnostic of allocate, reached only without a throw
AllocatedObjectOut(st, T) ==
    IF st.ret.status = "ok"
    THEN [st EXCEPT !.cout = Append(@, Line("Allocated object of", T, 0, 0))]
    ELSE st

\* template <typename T, typename... Args> T* allocate(Args&&... args)
allocate(st, T, x, y, throw, a) ==
    IF ~is_class_v(T) THEN Rejected(st)
    ELSE IF throw = "new" THEN [st EXCEPT !.ret = Ret("bad_alloc", nullptr)]
    ELSE AllocatedObjectOut(
            Track(MyClassCtorOut(
                      Construct(st, a, NewObject(st.constructed + 1, T, x, y)), x, y),
                  a, ObjectDeleter(T), throw),
            T)

\* Mutant: the elements are destroyed but stay in the vector
clearKeepsRecords(st) ==
    [DestroyElements(st, st.memoryBlocks) EXCEPT !.memoryBlocks = st.memoryBlocks]

\* Mutant: every element is destroyed, all but the last are erased
clearAllButLast(st) ==
    [DestroyElements(st, st.memoryBlocks) EXCEPT
        !.memoryBlocks = IF st.memoryBlocks = <<>> THEN <<>>
                         ELSE <<st.memoryBlocks[Len(st.memoryBlocks)]>>]

\* memoryBlocks.clear(): destroys every element, leaves the vector empty
clear(st) ==
    [DestroyElements(st, st.memoryBlocks) EXCEPT !.memoryBlocks = <<>>]

\* void dealloc()
dealloc(st) ==
    [clear(st) EXCEPT !.cout = Append(@, Line("All memory deallocated.", "", 0, 0)),
                      !.ret  = Ret("void", nullptr)]

\* Mutant: the vector's storage is released, its elements are not destroyed
DestroyManagerLeaks(st) ==
    [st EXCEPT !.memoryBlocks = <<>>, !.alive = FALSE, !.ret = Ret("void", nullptr)]

\* ~MemoryManager(): implicit; destroys the member vector and its elements
DestroyManager(st) ==
    [clear(st) EXCEPT !.alive = FALSE, !.ret = Ret("void", nullptr)]

\* ------------------------------------------------------------------ calls
Call(op, T, size, x, y, throw, a) ==
    [op |-> op, T |-> T, size |-> size, x |-> x, y |-> y, throw |-> throw, a |-> a]

IsAlloc(c) == c.op \in {"allocateArray", "allocate"}

NoCall == Call("none", "", 0, 0, 0, "none", nullptr)

\* The payloads the manager's records refer to
Retained(st) == {st.memoryBlocks[k].ptr : k \in 1..Len(st.memoryBlocks)}

\* One call, starting with nothing yet written by it
Do(st0, c) ==
    LET st == [st0 EXCEPT !.cout = <<>>]
    IN  CASE c.op = "allocateArray" -> allocateArray(st, c.T, c.size, c.throw, c.a)
          [] c.op = "allocate"      -> allocate(st, c.T, c.x, c.y, c.throw, c.a)
          [] c.op = "dealloc"       -> dealloc(st)
          [] OTHER                  -> DestroyManager(st)

\* What operator new can do for a call: throw, or return an unused address.
\* With no unused address left it can only throw.
NewOutcome(throw, a) ==
    /\ \/ throw = "new" /\ a = nullptr
       \/ throw # "new" /\ a \in OperatorNew(heap)
    /\ throw # "none" => nthrows < MaxThrows
    /\ nthrows' = IF throw = "none" THEN nthrows ELSE nthrows + 1

Apply(c) ==
    \E st \in {Do(State, c)}, opens \in {call.op = "dealloc" /\ IsAlloc(c)} :
        /\ memoryBlocks' = st.memoryBlocks
        /\ heap' = st.heap
        /\ constructed' = st.constructed
        /\ deleted' = st.deleted
        /\ cout' = st.cout
        /\ ret' = st.ret
        /\ alive' = st.alive
        /\ destroyOrder' = destroyOrder
        /\ twin' = Do(IF opens THEN Fresh ELSE twin, c)
        /\ genBase' = IF opens
                      THEN [constructed |-> constructed, deleted |-> deleted]
                      ELSE genBase
        /\ call' = c
        /\ survivors' = IF st.ret.status = "bad_alloc"
                        THEN {heap[p].id : p \in Retained(State)}
                        ELSE survivors

Init ==
    /\ memoryBlocks = Fresh.memoryBlocks
    /\ heap = Fresh.heap
    /\ constructed = Fresh.constructed
    /\ deleted = Fresh.deleted
    /\ cout = Fresh.cout
    /\ ret = Fresh.ret
    /\ alive = Fresh.alive
    /\ destroyOrder \in DestroyOrders
    /\ ncalls = 0
    /\ nthrows = 0
    /\ twin = Fresh
    /\ genBase = [constructed |-> 0, deleted |-> 0]
    /\ call = NoCall
    /\ survivors = {}

CallAllocateArray ==
    /\ alive /\ ncalls < MaxCalls
    /\ \E T \in Types \ {"MyClass"}, size \in Sizes, throw \in Throws,
          a \in Addrs \cup {nullptr} :
          /\ NewOutcome(throw, a)
          /\ Apply(Call("allocateArray", T, size, 0, 0, throw, a))
    /\ ncalls' = ncalls + 1

CallAllocate ==
    /\ alive /\ ncalls < MaxCalls
    /\ \E x \in XArgs, y \in YArgs, throw \in Throws, a \in Addrs \cup {nullptr} :
          /\ NewOutcome(throw, a)
          /\ Apply(Call("allocate", "MyClass", 1, x, y, throw, a))
    /\ ncalls' = ncalls + 1

\* allocateArray<MyClass>(n) and allocate<int>(x, y): the misuse calls
CallMisuse ==
    /\ alive /\ ncalls < MaxCalls
    /\ \/ Apply(Call("allocateArray", "MyClass", MaxSize, 0, 0, "none", nullptr))
       \/ \E x \in XArgs, y \in YArgs :
             Apply(Call("allocate", "int", 1, x, y, "none", nullptr))
    /\ ncalls' = ncalls + 1
    /\ UNCHANGED nthrows

CallDealloc ==
    /\ alive /\ ncalls < MaxCalls
    /\ Apply(Call("dealloc", "", 0, 0, 0, "none", nullptr))
    /\ ncalls' = ncalls + 1
    /\ UNCHANGED nthrows

\* The manager goes out of scope
EndOfLifetime ==
    /\ alive
    /\ Apply(Call("destroy", "", 0, 0, 0, "none", nullptr))
    /\ UNCHANGED <<ncalls, nthrows>>

Next ==
    \/ CallAllocateArray
    \/ CallAllocate
    \/ CallMisuse
    \/ CallDealloc
    \/ EndOfLifetime

Spec == Init /\ [][Next]_vars

\* ----------------------------------------------------------------- claims
\* A payload destroyed exactly once, by the deleter made for it
ExactlyOnce(o) == ~o.live /\ o.deletes = 1 /\ o.wrong = 0 /\ o.dtor = o.ctor

CallMade      == ncalls' = ncalls + 1
DeallocStep   == CallMade /\ call'.op = "dealloc"
DestroyStep   == alive /\ ~alive'
ThrowStep     == CallMade /\ ret'.status = "bad_alloc"
DeallocLine   == Line("All memory deallocated.", "", 0, 0)

\* C1: after any sequence of successful allocate/allocateArray calls, once
\* dealloc has returned every payload constructed has been destroyed exactly
\* once: none is still live and none was deleted twice.
C1_DeallocDestroysEachOnce ==
    (call.op = "dealloc" /\ nthrows = 0) =>
        /\ memoryBlocks = <<>>
        /\ deleted = constructed
        /\ \A a \in Addrs : heap[a].id # 0 => ExactlyOnce(heap[a])

C1_Witness ==
    /\ call.op = "dealloc" /\ nthrows = 0 /\ ncalls = 3
    /\ constructed = 2 /\ deleted = 2
    /\ \E a, b \in Addrs : /\ heap[a].shape = "object" /\ heap[a].deletes = 1
                           /\ heap[b].shape = "array" /\ heap[b].deletes = 1

\* C2: dealloc on a manager that holds no record destroys nothing, raises no
\* error and leaves the manager empty; so a dealloc right after a dealloc
\* changes nothing either.
C2_DeallocOnEmptyIsNoOp ==
    [][(DeallocStep /\ (memoryBlocks = <<>> \/ call.op = "dealloc")) =>
          /\ heap' = heap
          /\ deleted' = deleted
          /\ constructed' = constructed
          /\ memoryBlocks' = <<>>
          /\ ret'.status = "void"
          /\ cout' = <<DeallocLine>>]_vars

C2_Witness ==
    /\ call.op = "dealloc" /\ constructed = 0
    /\ memoryBlocks = <<>> /\ ret.status = "void"

\* C3: after dealloc the manager behaves as a manager just created: given
\* the calls of the current generation it holds the same records, has
\* constructed and destroyed as many payloads, and returned the same results
\* as the twin created for that generation; and no payload of an earlier
\* generation is retained or destroyed again.
Rebased ==
    [a \in Addrs |->
        IF heap[a].id > genBase.constructed
        THEN [heap[a] EXCEPT !.id = @ - genBase.constructed,
                             !.when = IF @ = 0 THEN 0 ELSE @ - genBase.deleted]
        ELSE Unused]

C3_ReusedBehavesAsFresh ==
    /\ memoryBlocks = twin.memoryBlocks
    /\ Rebased = twin.heap
    /\ constructed - genBase.constructed = twin.constructed
    /\ deleted - genBase.deleted = twin.deleted
    /\ ret = twin.ret
    /\ cout = twin.cout
    /\ alive = twin.alive
    /\ \A a \in Addrs :
          (heap[a].id # 0 /\ heap[a].id <= genBase.constructed) =>
              /\ heap[a].deletes <= 1
              /\ a \notin Retained(State)

C3_Witness ==
    /\ genBase.constructed > 0
    /\ call.op = "dealloc"
    /\ twin.constructed > 0 /\ twin.deleted = twin.constructed

\* C4: a call that fails with an allocation error adds no record and leaves
\* every retained record and its payload as they were, live and undestroyed;
\* the next dealloc destroys each of those payloads exactly once.
C4_FailureKeepsEarlierRecords ==
    [][/\ ThrowStep =>
            /\ memoryBlocks' = memoryBlocks
            /\ \A p \in Retained(State) :
                  heap'[p] = heap[p] /\ heap[p].live /\ heap[p].deletes = 0
       /\ DeallocStep =>
            \A a \in Addrs :
               (heap[a].id \in survivors /\ heap[a].live) =>
                   heap'[a].id = heap[a].id /\ ExactlyOnce(heap'[a])]_vars

C4_Witness ==
    /\ call.op = "dealloc" /\ nthrows = 1
    /\ \E a \in Addrs : heap[a].id \in survivors /\ ExactlyOnce(heap[a])

\* C5: when the manager is destroyed while it retains records, each retained
\* payload is destroyed exactly once, as dealloc would have done, and nothing
\* else is touched; destroyed right after dealloc, it destroys nothing.
C5_DestructorReleasesAll ==
    [][DestroyStep =>
          /\ \A p \in Retained(State) :
                heap[p].live /\ heap'[p].id = heap[p].id /\ ExactlyOnce(heap'[p])
          /\ \A a \in Addrs \ Retained(State) : heap'[a] = heap[a]
          /\ deleted' = deleted + Len(memoryBlocks)
          /\ heap' = dealloc(State).heap
          /\ memoryBlocks' = <<>>
          /\ call.op = "dealloc" => (heap' = heap /\ deleted' = deleted)]_vars

C5_Witness ==
    /\ ~alive /\ ncalls = 2 /\ nthrows = 0
    /\ constructed = 2 /\ deleted = 2
    /\ \A a \in Addrs : ExactlyOnce(heap[a])

\* C6, as claimed: a successful allocate/allocateArray call appends exactly
\* one record at the end and leaves every earlier record and payload
\* unchanged; and only dealloc or the manager's destruction ever destroys a
\* payload.
SuccessStep == CallMade /\ ret'.status = "ok"

AppendsOneRecord ==
    SuccessStep =>
        /\ ret'.ptr \in Addrs /\ ~heap[ret'.ptr].live
        /\ Len(memoryBlocks') = Len(memoryBlocks) + 1
        /\ SubSeq(memoryBlocks', 1, Len(memoryBlocks)) = memoryBlocks
        /\ memoryBlocks'[Len(memoryBlocks')].ptr = ret'.ptr
        /\ heap'[ret'.ptr].live
        /\ \A a \in Addrs \ {ret'.ptr} : heap'[a] = heap[a]
        /\ deleted' = deleted

C6_OnlyReleaseDestroys ==
    [][/\ AppendsOneRecord
       /\ deleted' # deleted => (DeallocStep \/ DestroyStep)]_vars

\* C6, amended: as above, but only dealloc or the manager's destruction ever
\* destroys a payload that was live before the call; a call that throws
\* while appending its record destroys the one payload it constructed itself.
C6_HandlesValidUntilRelease ==
    [][/\ AppendsOneRecord
       /\ (\E a \in Addrs : heap[a].live /\ heap'[a] # heap[a])
             => (DeallocStep \/ DestroyStep)
       /\ (deleted' # deleted /\ ~DeallocStep /\ ~DestroyStep) =>
             /\ ThrowStep /\ call'.throw = "emplace_back"
             /\ deleted' = deleted + 1 /\ constructed' = constructed + 1
             /\ \E a \in Addrs : heap'[a].id = constructed' /\ ExactlyOnce(heap'[a])]_vars

C6_Witness ==
    /\ call.throw = "emplace_back" /\ ret.status = "bad_alloc"
    /\ Len(memoryBlocks) = 1
    /\ \A p \in Retained(State) : heap[p].live /\ heap[p].deletes = 0
    /\ \E a \in Addrs : heap[a].id = constructed /\ ExactlyOnce(heap[a])

\* C7: allocate<T> with a non-class T and allocateArray<T> with a class T are
\* rejected, construct nothing and leave the manager as it was; the other
\* combinations are accepted, so objects are of class types and arrays of
\* non-class types.
C7_TypeMisuseRejected ==
    [][/\ (CallMade /\ ret'.status = "static_assert") =>
             /\ memoryBlocks' = memoryBlocks
             /\ heap' = heap
             /\ constructed' = constructed /\ deleted' = deleted
             /\ cout' = <<>>
       /\ (CallMade /\ call'.op = "allocate") =>
             (ret'.status = "static_assert" <=> call'.T \notin ClassTypes)
       /\ (CallMade /\ call'.op = "allocateArray") =>
             (ret'.status = "static_assert" <=> call'.T \in ClassTypes)
       /\ \A a \in Addrs :
             /\ heap'[a].shape = "object" => heap'[a].T \in ClassTypes
             /\ heap'[a].shape = "array" => heap'[a].T \notin ClassTypes]_vars

C7_Witness ==
    /\ call.op = "allocateArray" /\ call.T = "MyClass"
    /\ ret.status = "static_assert"
    /\ Len(memoryBlocks) >= 1
    /\ \A p \in Retained(State) : heap[p].live

\* C8: allocateArray<T>(0) in which nothing throws returns a non-null handle
\* to a live empty array and appends one record for it; dealloc then runs
\* that record's deleter exactly once, with no element destroyed and no error.
C8_EmptyArray ==
    [][/\ (CallMade /\ call'.op = "allocateArray" /\ call'.T \notin ClassTypes
              /\ call'.size = 0 /\ call'.throw = "none") =>
             /\ ret'.status = "ok" /\ ret'.ptr # nullptr
             /\ heap'[ret'.ptr].live
             /\ heap'[ret'.ptr].shape = "array" /\ heap'[ret'.ptr].size = 0
             /\ memoryBlocks' =
                   Append(memoryBlocks, MemoryBlock(ret'.ptr, ArrayDeleter(call'.T)))
       /\ DeallocStep =>
             /\ ret'.status = "void"
             /\ \A p \in Retained(State) :
                   (heap[p].shape = "array" /\ heap[p].size = 0) =>
                       /\ heap'[p].id = heap[p].id
                       /\ ExactlyOnce(heap'[p])
                       /\ heap'[p].dtor = 0]_vars

C8_Witness ==
    /\ call.op = "dealloc" /\ deleted > 0
    /\ \E a \in Addrs : /\ heap[a].shape = "array" /\ heap[a].size = 0
                        /\ ExactlyOnce(heap[a]) /\ heap[a].dtor = 0

\* C9: allocate<T>(x, y) in which nothing throws constructs exactly one T,
\* once, from x and y, and returns the address of that payload, which reads
\* back m_x = x and m_y = y; dealloc runs its destructor exactly once.
C9_ConstructsFromArguments ==
    [][/\ (CallMade /\ call'.op = "allocate" /\ call'.T \in ClassTypes
              /\ call'.throw = "none") =>
             /\ ret'.status = "ok" /\ ret'.ptr # nullptr
             /\ constructed' = constructed + 1
             /\ heap'[ret'.ptr].id = constructed'
             /\ heap'[ret'.ptr].live
             /\ heap'[ret'.ptr].shape = "object" /\ heap'[ret'.ptr].T = call'.T
             /\ heap'[ret'.ptr].ctor = 1 /\ heap'[ret'.ptr].dtor = 0
             /\ heap'[ret'.ptr].m_x = call'.x /\ heap'[ret'.ptr].m_y = call'.y
       /\ DeallocStep =>
             \A p \in Retained(State) :
                (heap[p].shape = "object") =>
                    /\ heap'[p].id = heap[p].id
                    /\ heap'[p].dtor = 1 /\ heap'[p].deletes = 1
                    /\ ~heap'[p].live]_vars

C9_Witness ==
    /\ call.op = "allocate" /\ call.x = 42 /\ call.y = 314
    /\ ret.status = "ok"
    /\ heap[ret.ptr].live /\ heap[ret.ptr].m_x = 42 /\ heap[ret.ptr].m_y = 314

\* C10: a call that fails with an allocation error, at whichever step,
\* leaves the state as if it had not been made: the records are unchanged
\* and no payload the call constructed is left live without a record.
C10_FailedCallLeavesNothing ==
    [][ThrowStep =>
          /\ memoryBlocks' = memoryBlocks
          /\ \A a \in Addrs : heap'[a].live => heap'[a] = heap[a]]_vars

\* C11: ownership is one-to-one in every state: each record refers to one
\* non-null live payload, no two records refer to the same payload (so the
\* buffers of distinct calls never alias), and the live payloads are exactly
\* those the records refer to, one record per live payload.
LivePayloads == {a \in Addrs : heap[a].live}

C11_OwnershipOneToOne ==
    /\ \A k \in 1..Len(memoryBlocks) :
          /\ memoryBlocks[k].ptr # nullptr
          /\ memoryBlocks[k].ptr \in Addrs
          /\ heap[memoryBlocks[k].ptr].live
    /\ \A j, k \in 1..Len(memoryBlocks) :
          j # k => memoryBlocks[j].ptr # memoryBlocks[k].ptr
    /\ LivePayloads = Retained(State)
    /\ Len(memoryBlocks) = Cardinality(LivePayloads)

\* C12: every retained record carries the deleter of the shape and type it
\* was allocated with (allocate<T>: delete of one T, allocateArray<T>:
\* delete[] of T[]), and no deleter ever ran on another payload than its own
\* or more than once.
C12_DeleterMatchesShape ==
    /\ \A k \in 1..Len(memoryBlocks) :
          LET b == memoryBlocks[k]
              o == heap[b.ptr]
          IN  /\ o.shape = "object" => b.deleter = ObjectDeleter(o.T)
              /\ o.shape = "array" => b.deleter = ArrayDeleter(o.T)
              /\ o.shape \in {"object", "array"}
    /\ \A a \in Addrs :
          /\ heap[a].wrong = 0
          /\ heap[a].deletes <= 1
          /\ (heap[a].id # 0 /\ ~heap[a].live) => heap[a].dtor = heap[a].ctor

C12_Witness ==
    /\ Len(memoryBlocks) = 1
    /\ heap[memoryBlocks[1].ptr].shape = "array"
    /\ memoryBlocks[1].deleter.shape = "array"
    /\ \E a \in Addrs : heap[a].shape = "object" /\ ExactlyOnce(heap[a])

\* C14: no call blocks and dealloc always completes with zero records: a
\* successful allocate/allocateArray leaves the manager non-empty, dealloc
\* leaves it empty, and it changes between empty and non-empty in no other
\* way; while the manager lives, a dealloc call can always be taken.
C14_EmptyNonEmpty ==
    /\ []((alive /\ ncalls < MaxCalls) => ENABLED CallDealloc)
    /\ [][/\ DeallocStep => (memoryBlocks' = <<>> /\ ret'.status = "void")
          /\ SuccessStep => memoryBlocks' # <<>>
          /\ ((memoryBlocks = <<>>) # (memoryBlocks' = <<>>)) =>
                (SuccessStep \/ DeallocStep \/ DestroyStep)]_vars

C14_Witness ==
    /\ genBase.constructed > 0 /\ genBase.deleted = genBase.constructed
    /\ ret.status = "ok" /\ Len(memoryBlocks) = 1
    /\ alive

\* C16: with the diagnostics compiled in, every successful allocateArray
\* writes an "Allocated array of" line and every successful allocate an
\* "Allocated object of" line, and dealloc writes "All memory deallocated."
\* last, after every retained payload has been destroyed.
Wrote(out, text) == \E i \in 1..Len(out) : out[i].text = text

C16_AllocationDiagnostics ==
    [][/\ (SuccessStep /\ call'.op = "allocateArray") =>
             Wrote(cout', "Allocated array of")
       /\ (SuccessStep /\ call'.op = "allocate") =>
             Wrote(cout', "Allocated object of")
       /\ DeallocStep =>
             /\ cout' # <<>> /\ cout'[Len(cout')] = DeallocLine
             /\ \A p \in Retained(State) : ~heap'[p].live]_vars

\* C13, as claimed: dealloc destroys the retained records in insertion
\* order: of two records the one appended earlier is destroyed first.
DestroyedBefore(p, q) == heap'[p].when < heap'[q].when

C13_InsertionOrder ==
    [][DeallocStep =>
          \A j, k \in 1..Len(memoryBlocks) :
             j < k => DestroyedBefore(memoryBlocks[j].ptr, memoryBlocks[k].ptr)]_vars

\* C13, amended: dealloc destroys the retained records in one order, fixed
\* for the build by its standard library and the same at every dealloc of a
\* run: insertion order with libstdc++ and the MSVC library, the reverse of
\* insertion order with libc++.
C13_OneOrderPerBuild ==
    [][/\ destroyOrder' = destroyOrder
       /\ DeallocStep =>
             \A j, k \in 1..Len(memoryBlocks) :
                j < k =>
                   IF destroyOrder = "first to last"
                   THEN DestroyedBefore(memoryBlocks[j].ptr, memoryBlocks[k].ptr)
                   ELSE DestroyedBefore(memoryBlocks[k].ptr, memoryBlocks[j].ptr)]_vars

C13_Witness ==
    /\ call.op = "dealloc" /\ destroyOrder = "last to first"
    /\ \E a, b \in Addrs :
          /\ ExactlyOnce(heap[a]) /\ ExactlyOnce(heap[b])
          /\ heap[a].id < heap[b].id
          /\ heap[a].when = deleted /\ heap[b].when = deleted - 1

\* C15: when the caller serializes all calls with an external mutex, the
\* calls run one at a time, each to completion, and then no state violating
\* exclusive ownership is reachable: every constructed payload still live is
\* tracked by a record, and no payload is destroyed twice.
Tracked(a) == \E k \in 1..Len(memoryBlocks) : memoryBlocks[k].ptr = a

C15_SerializedKeepsOwnership ==
    \A a \in Addrs :
       /\ (alive /\ heap[a].live) => Tracked(a)
       /\ heap[a].deletes <= 1
       /\ (heap[a].id # 0 /\ ~heap[a].live) => ExactlyOnce(heap[a])

====
